---- MODULE Spec2Model ----
(***************************************************************************)
(* Room session manager of the realtime code editor backend                *)
(* (src/backend/index.js) with the Room document store                     *)
(* (src/unnamed/part_000, the mongoose Room model).                        *)
(*                                                                         *)
(* The server is one single-threaded event loop.  A handler runs           *)
(* atomically from the arrival of its event up to its first `await`, and   *)
(* from the return of one awaited store call up to the next `await` or the *)
(* end of the handler.  An awaited store call is two points in time: the   *)
(* call, where its arguments are evaluated, and its return, where the      *)
(* store executes it (with success or failure, in any order among the      *)
(* calls in flight) and the handler resumes with the result.  The store    *)
(* step touches only the collection and the resumption only the server's   *)
(* memory, so the one schedule this leaves out is two calls in flight      *)
(* executed by the store in one order and resumed in the other.            *)
(***************************************************************************)
EXTENDS Naturals, Sequences, FiniteSets

VARIABLES
  connState,    \* connection -> "open" | "closed"
  currentRoom,  \* connection -> room or Null      (let currentRoom, line 48)
  currentUser,  \* connection -> user or Null      (let currentUser, line 49)
  socketRooms,  \* connection -> set of rooms the socket is registered in
  activeRooms,  \* the Map roomId -> Set of userNames (line 30); a function
                \* whose DOMAIN is the set of keys, a Set being the sequence
                \* of its elements in insertion order
  db,           \* the Room collection: roomId -> document
  tasks,        \* the handler invocations, in arrival order
  emitted,      \* every message emitted, in emission order, with recipients
  addedBy       \* history: connection -> the <<room, user>> it added to the
                \* presence table and nobody has removed since

vars == <<connState, currentRoom, currentUser, socketRooms, activeRooms, db,
          tasks, emitted, addedBy>>

----------------------------------------------------------------------------
(* Bounds of the model *)

\* client events per run, in Spec and in SpecSmall
MaxOps == 3
MaxOpsSmall == 2

Conns == {"c1", "c2"}
Rooms == {"r1", "r2"}
Users == {"u1", "u2"}
Codes == {"a", "b"}
Langs == {"python"}

Null == "null"

\* the value of a field that the payload of an event lacks
Undefined == "undefined"

TaskIds == 1 .. Len(tasks)

\* The server treats all connections, room ids, user names and texts alike,
\* so the clients' events are enumerated up to renaming: a value is first
\* used only after the values before it in its order were used.
InOrder(order, used) ==
  {order[i] : i \in {k \in 1 .. Len(order) :
                       \A j \in 1 .. k - 1 : order[j] \in used}}

NextConns == InOrder(<<"c1", "c2">>, {tasks[i].conn : i \in TaskIds})
NextRooms == InOrder(<<"r1", "r2">>, {tasks[i].room : i \in TaskIds})
NextUsers == InOrder(<<"u1", "u2">>, {tasks[i].user : i \in TaskIds})
NextCodes == InOrder(<<"a", "b">>, {tasks[i].text : i \in TaskIds})

----------------------------------------------------------------------------
(* The in-memory presence table *)

Range(s) == {s[i] : i \in 1 .. Len(s)}

\* Set.prototype.add: a new element goes last, a present one stays in place
SetAdd(s, u) == IF u \in Range(s) THEN s ELSE Append(s, u)

\* Set.prototype.delete
SetDelete(s, u) == SelectSeq(s, LAMBDA x : x # u)

\* Map.prototype.set / Map.prototype.delete
MapSet(m, k, v) == [x \in DOMAIN m \cup {k} |-> IF x = k THEN v ELSE m[x]]
MapDelete(m, ks) == [x \in DOMAIN m \ ks |-> m[x]]

\* if (!activeRooms.has(roomId)) activeRooms.set(roomId, new Set());
\* activeRooms.get(roomId).add(userName);
AddUser(ar, r, u) ==
  MapSet(ar, r, SetAdd(IF r \in DOMAIN ar THEN ar[r] ELSE <<>>, u))

\* activeRooms.get(room).delete(user), the entry being present
RemoveUser(ar, r, u) == MapSet(ar, r, SetDelete(ar[r], u))

\* history of who added what: an add by c, a removal of <<r, u>> by anybody
NoteAdd(g, c, r, u) == [g EXCEPT ![c] = @ \cup {<<r, u>>}]
NoteRemove(g, r, u) == [x \in DOMAIN g |-> g[x] \ {<<r, u>>}]

\* (a variant that takes every room for empty)
EveryRoom(ar) == DOMAIN ar

\* cleanupEmptyRooms
EmptyRooms(ar) == {r \in DOMAIN ar : Len(ar[r]) = 0}

----------------------------------------------------------------------------
(* Broadcast fanout: who receives an emit *)

Live(c) == connState[c] = "open"

\* io.to(room).emit: every connected socket registered in the room
IoTo(sr, r) == {c \in Conns : Live(c) /\ r \in sr[c]}

\* (a variant that echoes to the sender, as io.to(room).emit would)
SocketToWithSender(sr, c, r) == IoTo(sr, r)

\* socket.to(room).emit: the same without the sending socket
SocketTo(sr, c, r) == IoTo(sr, r) \ {c}

\* socket.emit: the socket itself, when still connected
SocketOnly(c) == {x \in {c} : Live(x)}

\* an emitted message: its event and payload, the room it was broadcast to
\* (Null for socket.emit), who received it, the handler that emitted it
Msg(ev, text, users, room, to, src) ==
  [ev |-> ev, text |-> text, users |-> users, room |-> room, to |-> to,
   src |-> src]

\* what connection c has received, in order
Inbox(c) == SelectSeq(emitted, LAMBDA m : c \in m.to)

----------------------------------------------------------------------------
(* The document store *)

NoReq == [op |-> "none", room |-> Null, users |-> <<>>, text |-> ""]
NoDoc == [found |-> FALSE, code |-> "", language |-> ""]

\* a Room document; code and language default to "" and "javascript";
\* lastModified names the handler invocation whose Date it stores
NewDoc(code, language, users, now) ==
  [code |-> code, language |-> language, activeUsers |-> users,
   lastModified |-> now]

\* Room.findOneAndUpdate({roomId}, {activeUsers}) without upsert
DbUpdateUsers(d, r, users) ==
  IF r \in DOMAIN d THEN [d EXCEPT ![r].activeUsers = users] ELSE d

\* room.save() of a document built by new Room(...): an insert
DbInsert(d, r, users, now) == MapSet(d, r, NewDoc("", "javascript", users, now))

\* roomId is a unique key: an insert of a present roomId is rejected
DbInsertRejected(d, r) == r \in DOMAIN d

\* Room.findOneAndUpdate({roomId}, {code, lastModified}, {upsert: true})
DbUpsertCode(d, r, code, now) ==
  IF r \in DOMAIN d
    THEN [d EXCEPT ![r].code = code, ![r].lastModified = now]
    ELSE MapSet(d, r, NewDoc(code, "javascript", <<>>, now))

\* Room.findOneAndUpdate({roomId}, {language, lastModified}, {upsert: true})
DbUpsertLanguage(d, r, language, now) ==
  IF r \in DOMAIN d
    THEN [d EXCEPT ![r].language = language, ![r].lastModified = now]
    ELSE MapSet(d, r, NewDoc("", language, <<>>, now))

\* the same call with the field undefined; an undefined value in an update
\* is left out of it or stored as null, depending on the mongoose release,
\* and lastModified is set either way
DbUpsertUndefined(d, r, field, now) ==
  { IF r \in DOMAIN d THEN [d EXCEPT ![r].lastModified = now]
                       ELSE MapSet(d, r, NewDoc("", "javascript", <<>>, now)),
    IF field = "code" THEN DbUpsertCode(d, r, Null, now)
                      ELSE DbUpsertLanguage(d, r, Null, now) }

\* Room.findOne({roomId}): the handler's local `room`
DbFind(d, r) ==
  IF r \in DOMAIN d
    THEN [found |-> TRUE, code |-> d[r].code, language |-> d[r].language]
    ELSE NoDoc

----------------------------------------------------------------------------
(* Handler invocations *)

NewTask(kind, c, r, u, text) ==
  [kind |-> kind, conn |-> c, room |-> r, user |-> u, text |-> text,
   stage |-> "none", pc |-> "done", req |-> NoReq, res |-> "none",
   doc |-> NoDoc,
   \* history: the handler ended in its catch block; the <<stage, room>>
   \* of its rejected store calls; the room had no document at arrival;
   \* a rejection left the handler uncaught
   threw |-> FALSE, failed |-> {}, fresh |-> r \notin DOMAIN db,
   escaped |-> FALSE]

\* the handler suspends at `await` on a store call
Await(t, stage, req) ==
  [t EXCEPT !.stage = stage, !.pc = "call", !.req = req, !.res = "none"]

Finish(t) == [t EXCEPT !.pc = "done", !.req = NoReq]

PutTask(id, t) ==
  IF id = Len(tasks) + 1 THEN Append(tasks, t) ELSE [tasks EXCEPT ![id] = t]

Init ==
  /\ connState = [c \in Conns |-> "open"]
  /\ currentRoom = [c \in Conns |-> Null]
  /\ currentUser = [c \in Conns |-> Null]
  /\ socketRooms = [c \in Conns |-> {}]
  /\ activeRooms = << >>
  /\ db = << >>
  /\ tasks = << >>
  /\ emitted = << >>
  /\ addedBy = [c \in Conns |-> {}]

----------------------------------------------------------------------------
(* socket.on("join") *)

\* if (currentRoom): any value but null is truthy (room ids are non-empty)
Truthy(x) == x # Null

\* currentRoom = roomId ... let room = await Room.findOne({ roomId })
JoinEnter(id, t, ar, sr, em, g) ==
  /\ currentRoom' = [currentRoom EXCEPT ![t.conn] = t.room]
  /\ currentUser' = [currentUser EXCEPT ![t.conn] = t.user]
  /\ socketRooms' = [sr EXCEPT ![t.conn] = @ \cup {t.room}]
  /\ activeRooms' = AddUser(ar, t.room, t.user)
  /\ addedBy' = NoteAdd(g, t.conn, t.room, t.user)
  /\ emitted' = em
  /\ tasks' = PutTask(id, Await(t, "find",
                 [NoReq EXCEPT !.op = "find", !.room = t.room]))
  /\ UNCHANGED connState

\* Leave previous room if exists, up to the await of its store update
JoinLeavePrevious(id, t) ==
  LET c == t.conn
      cr == currentRoom[c]
      sr == IF Truthy(cr) THEN [socketRooms EXCEPT ![c] = @ \ {cr}]
                          ELSE socketRooms
  IN IF Truthy(cr) /\ cr \in DOMAIN activeRooms
       THEN LET ar == RemoveUser(activeRooms, cr, currentUser[c]) IN
            /\ socketRooms' = sr
            /\ activeRooms' = ar
            /\ addedBy' = NoteRemove(addedBy, cr, currentUser[c])
            /\ emitted' = Append(emitted,
                 Msg("userJoined", "", ar[cr], cr, IoTo(sr, cr), id))
            /\ tasks' = PutTask(id, Await(t, "leave",
                 [NoReq EXCEPT !.op = "updateUsers", !.room = cr,
                               !.users = ar[cr]]))
            /\ UNCHANGED <<connState, currentRoom, currentUser>>
       ELSE JoinEnter(id, t, activeRooms, sr, emitted, addedBy)

\* (a variant of the catch block without its fallback)
JoinCatchNoFallback(id, t, em) ==
  /\ emitted' = Append(em,
       Msg("error", "Failed to join room", <<>>, Null, SocketOnly(t.conn), id))
  /\ tasks' = PutTask(id, [Finish(t) EXCEPT !.threw = TRUE])
  /\ UNCHANGED <<connState, currentRoom, currentUser, socketRooms,
                 activeRooms, addedBy>>

\* catch (error): error to the socket, the fallback add and broadcast
JoinCatch(id, t, em) ==
  LET ar == AddUser(activeRooms, t.room, t.user) IN
  /\ activeRooms' = ar
  /\ addedBy' = NoteAdd(addedBy, t.conn, t.room, t.user)
  /\ emitted' = em \o
       << Msg("error", "Failed to join room", <<>>, Null, SocketOnly(t.conn), id),
          Msg("userJoined", "", ar[t.room], t.room,
              IoTo(socketRooms, t.room), id) >>
  /\ tasks' = PutTask(id, [Finish(t) EXCEPT !.threw = TRUE])
  /\ UNCHANGED <<connState, currentRoom, currentUser, socketRooms>>

\* after findOne: if (!room) new Room(...) else room.activeUsers = ...; save
JoinAfterFind(id, t) ==
  IF t.res = "err" \/ t.room \notin DOMAIN activeRooms
    THEN JoinCatch(id, t, emitted)
    ELSE LET snap == activeRooms[t.room] IN
         /\ tasks' = PutTask(id,
              IF t.doc.found
                THEN Await(t, "save",
                       [NoReq EXCEPT !.op = "saveUsers", !.room = t.room,
                                     !.users = snap])
                ELSE Await([t EXCEPT !.doc.code = "",
                                     !.doc.language = "javascript"], "save",
                       [NoReq EXCEPT !.op = "insert", !.room = t.room,
                                     !.users = snap]))
         /\ UNCHANGED <<connState, currentRoom, currentUser, socketRooms,
                        activeRooms, emitted, addedBy>>

\* after save: code and language to the socket, the user list to the room
JoinAfterSave(id, t) ==
  LET em == emitted \o
        << Msg("codeUpdate", t.doc.code, <<>>, Null, SocketOnly(t.conn), id),
           Msg("languageUpdate", t.doc.language, <<>>, Null,
               SocketOnly(t.conn), id) >>
  IN IF t.res = "err" THEN JoinCatch(id, t, emitted)
     ELSE IF t.room \notin DOMAIN activeRooms THEN JoinCatch(id, t, em)
     ELSE /\ emitted' = Append(em,
               Msg("userJoined", "", activeRooms[t.room], t.room,
                   IoTo(socketRooms, t.room), id))
          /\ tasks' = PutTask(id, Finish(t))
          /\ UNCHANGED <<connState, currentRoom, currentUser, socketRooms,
                         activeRooms, addedBy>>

JoinResume(id, t) ==
  CASE t.stage = "leave" ->
         JoinEnter(id, t, activeRooms, socketRooms, emitted, addedBy)
    [] t.stage = "find"  -> JoinAfterFind(id, t)
    [] t.stage = "save"  -> JoinAfterSave(id, t)

Join(c, r, u) ==
  /\ Live(c)
  /\ Len(tasks) < MaxOps
  /\ UNCHANGED db
  /\ JoinLeavePrevious(Len(tasks) + 1, NewTask("join", c, r, u, ""))

----------------------------------------------------------------------------
(* socket.on("codeChange"), socket.on("languageChange"), socket.on("typing") *)

\* await Room.findOneAndUpdate({roomId}, {code, lastModified}, upsert)
CodeChange(c, r, code) ==
  /\ Live(c)
  /\ Len(tasks) < MaxOps
  /\ UNCHANGED db
  /\ tasks' = Append(tasks, Await(NewTask("codeChange", c, r, Null, code), "update",
                [NoReq EXCEPT !.op = "upsertCode", !.room = r, !.text = code]))
  /\ UNCHANGED <<connState, currentRoom, currentUser, socketRooms,
                 activeRooms, emitted, addedBy>>

\* Always broadcast to other users (even if database fails); with the code
\* undefined, code.length throws inside the try and the catch block logs
CodeChangeResume(id, t) ==
  /\ emitted' = Append(emitted,
       Msg("codeUpdate", t.text, <<>>, t.room,
           SocketTo(socketRooms, t.conn, t.room), id))
  /\ tasks' = PutTask(id, Finish(t))
  /\ UNCHANGED <<connState, currentRoom, currentUser, socketRooms,
                 activeRooms, addedBy>>

\* await Room.findOneAndUpdate({roomId}, {language, lastModified}, upsert)
LanguageChange(c, r, language) ==
  /\ Live(c)
  /\ Len(tasks) < MaxOps
  /\ UNCHANGED db
  /\ tasks' = Append(tasks,
       Await(NewTask("languageChange", c, r, Null, language), "update",
             [NoReq EXCEPT !.op = "upsertLanguage", !.room = r,
                           !.text = language]))
  /\ UNCHANGED <<connState, currentRoom, currentUser, socketRooms,
                 activeRooms, emitted, addedBy>>

\* Always broadcast to all users (even if database fails)
LanguageChangeResume(id, t) ==
  /\ emitted' = Append(emitted,
       Msg("languageUpdate", t.text, <<>>, t.room,
           IoTo(socketRooms, t.room), id))
  /\ tasks' = PutTask(id, Finish(t))
  /\ UNCHANGED <<connState, currentRoom, currentUser, socketRooms,
                 activeRooms, addedBy>>

\* socket.to(roomId).emit("userTyping", userName)
Typing(c, r, u) ==
  /\ Live(c)
  /\ Len(tasks) < MaxOps
  /\ UNCHANGED db
  /\ tasks' = Append(tasks, NewTask("typing", c, r, u, ""))
  /\ emitted' = Append(emitted,
       Msg("userTyping", u, <<>>, r, SocketTo(socketRooms, c, r),
           Len(tasks) + 1))
  /\ UNCHANGED <<connState, currentRoom, currentUser, socketRooms,
                 activeRooms, addedBy>>

----------------------------------------------------------------------------
(* socket.on("leaveRoom"), socket.on("disconnect") *)

\* if (currentRoom && currentUser)
Joined(c) == Truthy(currentRoom[c]) /\ Truthy(currentUser[c])

\* socket.leave(currentRoom); currentRoom = null; currentUser = null
LeaveExit(id, t, em) ==
  LET c == t.conn IN
  /\ socketRooms' = [socketRooms EXCEPT ![c] = @ \ {currentRoom[c]}]
  /\ currentRoom' = [currentRoom EXCEPT ![c] = Null]
  /\ currentUser' = [currentUser EXCEPT ![c] = Null]
  /\ emitted' = em
  /\ tasks' = PutTask(id, Finish(t))
  /\ UNCHANGED <<connState, activeRooms, addedBy>>

\* the removal from the presence entry and the call of the store update,
\* shared by leaveRoom and disconnect; the entry is present
LeaveRemove(id, t) ==
  LET c == t.conn
      cr == currentRoom[c]
      ar == RemoveUser(activeRooms, cr, currentUser[c])
  IN /\ activeRooms' = ar
     /\ addedBy' = NoteRemove(addedBy, cr, currentUser[c])
     /\ tasks' = PutTask(id, Await(t, "update",
          [NoReq EXCEPT !.op = "updateUsers", !.room = cr, !.users = ar[cr]]))
     /\ UNCHANGED <<currentRoom, currentUser, emitted>>

\* (a variant that answers the leaveRoom of an unjoined connection with an
\* error)
LeaveRoomAnswering(c) ==
  LET id == Len(tasks) + 1
      t == NewTask("leaveRoom", c, currentRoom[c], currentUser[c], "")
  IN /\ Live(c)
     /\ Len(tasks) < MaxOps
     /\ UNCHANGED db
     /\ IF ~Joined(c)
          THEN /\ tasks' = Append(tasks, t)
               /\ emitted' = Append(emitted,
                    Msg("error", "Not in a room", <<>>, Null, SocketOnly(c), id))
               /\ UNCHANGED <<connState, currentRoom, currentUser, socketRooms,
                              activeRooms, addedBy>>
          ELSE IF currentRoom[c] \in DOMAIN activeRooms
            THEN LeaveRemove(id, t) /\ UNCHANGED <<connState, socketRooms>>
            ELSE LeaveExit(id, t, emitted)

LeaveRoom(c) ==
  LET id == Len(tasks) + 1
      t == NewTask("leaveRoom", c, currentRoom[c], currentUser[c], "")
  IN /\ Live(c)
     /\ Len(tasks) < MaxOps
     /\ UNCHANGED db
     /\ IF ~Joined(c)
          THEN /\ tasks' = Append(tasks, t)
               /\ UNCHANGED <<connState, currentRoom, currentUser, socketRooms,
                              activeRooms, emitted, addedBy>>
          ELSE IF currentRoom[c] \in DOMAIN activeRooms
            THEN LeaveRemove(id, t) /\ UNCHANGED <<connState, socketRooms>>
            ELSE LeaveExit(id, t, emitted)

\* the user list broadcast after the store update, read from the entry of
\* the room that currentRoom names now; Array.from(undefined) throws
LeaveBroadcast(id, t) ==
  Append(emitted, Msg("userJoined", "", activeRooms[currentRoom[t.conn]],
                      currentRoom[t.conn],
                      IoTo(socketRooms, currentRoom[t.conn]), id))

\* what ends a leaveRoom or disconnect in its catch block: the rejected
\* store update, or the TypeError of Array.from(activeRooms.get(currentRoom))
LeaveThrows(t) ==
  t.res = "err" \/ currentRoom[t.conn] \notin DOMAIN activeRooms

LeaveCatch(id, t) ==
  /\ tasks' = PutTask(id, [Finish(t) EXCEPT !.threw = TRUE])
  /\ UNCHANGED <<connState, currentRoom, currentUser, socketRooms,
                 activeRooms, emitted, addedBy>>

LeaveRoomResume(id, t) ==
  IF LeaveThrows(t) THEN LeaveCatch(id, t)
  ELSE LeaveExit(id, t, LeaveBroadcast(id, t))

\* the transport has closed the socket and removed it from its rooms
Disconnect(c) ==
  LET id == Len(tasks) + 1
      t == NewTask("disconnect", c, currentRoom[c], currentUser[c], "")
  IN /\ Live(c)
     /\ Len(tasks) < MaxOps
     /\ UNCHANGED db
     /\ connState' = [connState EXCEPT ![c] = "closed"]
     /\ socketRooms' = [socketRooms EXCEPT ![c] = {}]
     /\ IF Joined(c) /\ currentRoom[c] \in DOMAIN activeRooms
          THEN LeaveRemove(id, t)
          ELSE /\ tasks' = Append(tasks, t)
               /\ UNCHANGED <<currentRoom, currentUser, activeRooms, emitted, addedBy>>

DisconnectResume(id, t) ==
  IF LeaveThrows(t) THEN LeaveCatch(id, t)
  ELSE /\ emitted' = LeaveBroadcast(id, t)
       /\ tasks' = PutTask(id, Finish(t))
       /\ UNCHANGED <<connState, currentRoom, currentUser, socketRooms,
                      activeRooms, addedBy>>

----------------------------------------------------------------------------
(* The return of a store call in flight *)

StoreApply(d, q, now) ==
  CASE q.op = "updateUsers"    -> DbUpdateUsers(d, q.room, q.users)
    [] q.op = "saveUsers"      -> DbUpdateUsers(d, q.room, q.users)
    [] q.op = "insert"         -> DbInsert(d, q.room, q.users, now)
    [] q.op = "upsertCode"     -> DbUpsertCode(d, q.room, q.text, now)
    [] q.op = "upsertLanguage" -> DbUpsertLanguage(d, q.room, q.text, now)
    [] q.op = "find"           -> d

\* the collections a fulfilled call can leave behind
StoreResults(d, q, now) ==
  IF q.op = "upsertCode" /\ q.text = Undefined
    THEN DbUpsertUndefined(d, q.room, "code", now)
  ELSE IF q.op = "upsertLanguage" /\ q.text = Undefined
    THEN DbUpsertUndefined(d, q.room, "language", now)
  ELSE {StoreApply(d, q, now)}

\* the continuation of the handler after its await
Resume(id, t) ==
  CASE t.kind = "join"           -> JoinResume(id, t)
    [] t.kind = "codeChange"     -> CodeChangeResume(id, t)
    [] t.kind = "languageChange" -> LanguageChangeResume(id, t)
    [] t.kind = "leaveRoom"      -> LeaveRoomResume(id, t)
    [] t.kind = "disconnect"     -> DisconnectResume(id, t)

\* the call succeeds: its effect on the collection, its result to the caller
StoreOk(id) ==
  LET t == tasks[id] IN
  /\ t.pc = "call"
  /\ ~(t.req.op = "insert" /\ DbInsertRejected(db, t.req.room))
  /\ db' \in StoreResults(db, t.req, id)
  /\ Resume(id, [t EXCEPT !.res = "ok",
                   !.doc = IF t.req.op = "find" THEN DbFind(db, t.req.room)
                           ELSE @])

\* (a variant in which only the join handler has try blocks)
InTryJoinOnly(kind, stage) == kind = "join"

\* the await of the store call is inside a try block of its handler
InTry(kind, stage) ==
  \/ kind = "join" /\ stage \in {"leave", "find", "save"}
  \/ kind \in {"codeChange", "languageChange"} /\ stage = "update"
  \/ kind \in {"leaveRoom", "disconnect"} /\ stage = "update"

\* a rejection outside every try block rejects the promise of the async
\* handler: the rest of the handler does not run
Escape(id, t) ==
  /\ tasks' = PutTask(id, [Finish(t) EXCEPT !.escaped = TRUE])
  /\ UNCHANGED <<connState, currentRoom, currentUser, socketRooms,
                 activeRooms, emitted, addedBy>>

\* the call is rejected (store unreachable, duplicate key): no effect
StoreFail(id) ==
  LET t == [tasks[id] EXCEPT !.res = "err",
                             !.failed = @ \cup {<<tasks[id].stage,
                                                  tasks[id].req.room>>}]
  IN /\ tasks[id].pc = "call"
     /\ db' = db
     /\ IF InTry(t.kind, t.stage) THEN Resume(id, t) ELSE Escape(id, t)

----------------------------------------------------------------------------
(* The idle room reaper *)

\* cleanupEmptyRooms, run by setInterval
Reaper ==
  /\ EmptyRooms(activeRooms) # {}
  /\ activeRooms' = MapDelete(activeRooms, EmptyRooms(activeRooms))
  /\ UNCHANGED <<connState, currentRoom, currentUser, socketRooms, db,
                 tasks, emitted, addedBy>>

\* the arrival of a client event at its handler
Arrive ==
  \/ \E c \in NextConns, r \in NextRooms, u \in NextUsers : Join(c, r, u)
  \/ \E c \in NextConns, r \in NextRooms, code \in NextCodes : CodeChange(c, r, code)
  \/ \E c \in NextConns, r \in NextRooms, l \in Langs : LanguageChange(c, r, l)
  \/ \E c \in NextConns, r \in NextRooms, u \in NextUsers : Typing(c, r, u)
  \/ \E c \in NextConns : LeaveRoom(c)
  \/ \E c \in NextConns : Disconnect(c)

Next ==
  \/ Arrive
  \/ \E id \in TaskIds : StoreOk(id)
  \/ \E id \in TaskIds : StoreFail(id)
  \/ Reaper

Spec == Init /\ [][Next]_vars

\* the same server with fewer client events
NextSmall ==
  \/ Len(tasks) < MaxOpsSmall /\ Arrive
  \/ \E id \in TaskIds : StoreOk(id)
  \/ \E id \in TaskIds : StoreFail(id)
  \/ Reaper

SpecSmall == Init /\ [][NextSmall]_vars

\* the arrival of an event whose payload lacks a field: a codeChange
\* without code, a languageChange without language, a typing without
\* userName
ArriveMalformed ==
  \/ \E c \in NextConns, r \in NextRooms : CodeChange(c, r, Undefined)
  \/ \E c \in NextConns, r \in NextRooms : LanguageChange(c, r, Undefined)
  \/ \E c \in NextConns, r \in NextRooms : Typing(c, r, Undefined)

\* the server with clients that also send such events
NextMalformed ==
  \/ Len(tasks) < MaxOpsSmall /\ Arrive
  \/ Len(tasks) < MaxOpsSmall /\ ArriveMalformed
  \/ \E id \in TaskIds : StoreOk(id)
  \/ \E id \in TaskIds : StoreFail(id)
  \/ Reaper

SpecMalformed == Init /\ [][NextMalformed]_vars

----------
(* Vocabulary of the properties *)

Done(i) == tasks[i].pc = "done"
AllDone == \A i \in TaskIds : Done(i)

\* the messages a handler invocation has emitted, as positions of the log
Sent(i, ev) == {k \in 1 .. Len(emitted) : emitted[k].src = i /\ emitted[k].ev = ev}

\* the connection was joined (currentRoom and currentUser set) when its
\* leaveRoom or disconnect arrived
WasJoined(i) == tasks[i].room # Null /\ tasks[i].user # Null

\* no store call has been rejected so far
NoStoreFailure == \A i \in TaskIds : tasks[i].failed = {}

\* the presence entry of a room as a set, an absent entry counting as empty
Presence(r) == IF r \in DOMAIN activeRooms THEN Range(activeRooms[r]) ELSE {}

----------------------------------------------------------------------------
(* C1: two codeChange events that one connection issues for one room are   *)
(* delivered to every other connection that receives both in the order the *)
(* connection issued them (the two carrying different code, so that the    *)
(* order shows).                                                           *)

C1_EditsDeliveredInIssueOrder ==
  \A i, j \in TaskIds :
    ( /\ i < j
      /\ tasks[i].kind = "codeChange" /\ tasks[j].kind = "codeChange"
      /\ tasks[i].conn = tasks[j].conn /\ tasks[i].room = tasks[j].room
      /\ tasks[i].text # tasks[j].text )
    => \A m \in Sent(i, "codeUpdate"), n \in Sent(j, "codeUpdate") :
         emitted[m].to \cap emitted[n].to # {} => m < n

----------------------------------------------------------------------------
(* C2: every leaveRoom or disconnect of a connection that is joined to a    *)
(* room broadcasts the user list without the leaving user to that room,    *)
(* also when the store update of activeUsers fails.                        *)

C2_LeaveAlwaysBroadcasts ==
  \A i \in TaskIds :
    ( /\ tasks[i].kind \in {"leaveRoom", "disconnect"}
      /\ WasJoined(i) /\ Done(i) )
    => \E k \in Sent(i, "userJoined") : tasks[i].user \notin Range(emitted[k].users)

----------------------------------------------------------------------------
(* C3: a connection is a member of at most one room: it is registered for  *)
(* broadcast in at most one room and the user names it added are in at     *)
(* most one presence entry (stated for runs without a store failure).      *)

C3_AtMostOneRoom ==
  NoStoreFailure =>
  \A c \in Conns :
    /\ Cardinality(socketRooms[c]) <= 1
    /\ Cardinality({p[1] : p \in addedBy[c]}) <= 1

----------------------------------------------------------------------------
(* C4: operations on the same room run one at a time in arrival order: no  *)
(* operation on a room takes a step while an operation on that room that   *)
(* arrived before it is unfinished.                                        *)

\* the room an operation targets: the payload's roomId, or the connection's
\* current room for leaveRoom and disconnect
C4_OneOperationPerRoomAtATime ==
  \A i, j \in TaskIds :
    (i < j /\ tasks[i].room = tasks[j].room /\ tasks[i].room # Null)
      => Done(i)

----------------------------------------------------------------------------
(* C5: the code and the language a join sends are the room's durable code  *)
(* and language at the moment they are sent, and they go to the joining    *)
(* connection only.                                                        *)

C5_JoinSendsCurrentCode ==
  [][ \A k \in (Len(emitted) + 1) .. Len(emitted') :
        LET m == emitted'[k]
            t == tasks'[m.src]
        IN (t.kind = "join" /\ m.ev \in {"codeUpdate", "languageUpdate"})
           => /\ m.to \subseteq {t.conn}
              /\ t.room \in DOMAIN db'
              /\ m.ev = "codeUpdate" => m.text = db'[t.room].code
              /\ m.ev = "languageUpdate" => m.text = db'[t.room].language
    ]_vars

----------------------------------------------------------------------------
(* C6: the presence entry of every room equals the result of applying the  *)
(* adds and removes of the join, leaveRoom and disconnect events one after *)
(* the other in the order the events arrived (stated for the states in     *)
(* which every handler has ended and no store call was rejected).          *)

\* one operation run alone, from start to end, on the presence sets `pres`
\* and the connections' room and user `cur`
ArrivalStep(st, t) ==
  LET c == t.conn
      left == IF st.cur[c].room # Null
                THEN [st.pres EXCEPT ![st.cur[c].room] = @ \ {st.cur[c].user}]
                ELSE st.pres
  IN CASE t.kind = "join" ->
            [pres |-> [left EXCEPT ![t.room] = @ \cup {t.user}],
             cur |-> [st.cur EXCEPT ![c] = [room |-> t.room, user |-> t.user]]]
       [] t.kind \in {"leaveRoom", "disconnect"} ->
            [pres |-> left,
             cur |-> [st.cur EXCEPT ![c] = [room |-> Null, user |-> Null]]]
       [] OTHER -> st

RECURSIVE ArrivalOrder(_)
ArrivalOrder(n) ==
  IF n = 0
    THEN [pres |-> [r \in Rooms |-> {}],
          cur |-> [c \in Conns |-> [room |-> Null, user |-> Null]]]
    ELSE ArrivalStep(ArrivalOrder(n - 1), tasks[n])

C6_PresenceIsArrivalOrderResult ==
  (AllDone /\ NoStoreFailure)
    => \A r \in Rooms : Presence(r) = ArrivalOrder(Len(tasks)).pres[r]

----------------------------------------------------------------------------
(* C7 as the specification states it: if any store call of a join fails,   *)
(* the join ends with                                                      *)
(* the user in the presence entry of the room, one userJoined broadcast to *)
(* the room carrying a list with the user, and an error sent to the        *)
(* joining connection and to no other.                                     *)

\* the handler of task id ends in this step
Ends(id) == tasks[id].pc = "call" /\ tasks'[id].pc = "done"

----------------------------------------------------------------------------
(* C8: the return of the store call of a codeChange, with success or with  *)
(* failure, emits in that step one codeUpdate carrying the new code to     *)
(* every other connection registered in the room and not to the sender;    *)
(* a codeChange emits nothing before and nothing else.                     *)

C8_EditBroadcast ==
  /\ [](\A id \in TaskIds :
          tasks[id].kind = "codeChange"
          => /\ \A k \in 1 .. Len(emitted) :
                  emitted[k].src = id
                  => emitted[k].ev = "codeUpdate"
                     /\ tasks[id].conn \notin emitted[k].to
             /\ Cardinality(Sent(id, "codeUpdate")) = IF Done(id) THEN 1 ELSE 0)
  /\ [][ \A id \in TaskIds :
           (tasks[id].kind = "codeChange" /\ Ends(id))
           => emitted' = Append(emitted,
                [ev |-> "codeUpdate", text |-> tasks[id].text, users |-> <<>>,
                 room |-> tasks[id].room,
                 to |-> {c \in Conns \ {tasks[id].conn} :
                           /\ connState[c] = "open"
                           /\ tasks[id].room \in socketRooms[c]},
                 src |-> id])
     ]_vars

\* a codeChange whose store call was rejected has reached another connection
C8_Witness ==
  \E id \in TaskIds :
    /\ tasks[id].kind = "codeChange" /\ Done(id) /\ tasks[id].res = "err"
    /\ \E k \in Sent(id, "codeUpdate") :
         emitted[k].to # {} /\ emitted[k].text = tasks[id].text

----------------------------------------------------------------------------
(* C9: whenever a room has a document, no operation is in progress and no  *)
(* store call has failed, the activeUsers of the document hold the users   *)
(* of the room's presence entry (an absent entry counting as empty).       *)

C9_DurableUsersMatchPresence ==
  (AllDone /\ NoStoreFailure)
    => \A r \in DOMAIN db : Range(db[r].activeUsers) = Presence(r)

----------------------------------------------------------------------------
(* C10: when a join for a room that had no document at the arrival of the  *)
(* join ends, the room has a document with empty code, language            *)
(* "javascript" and activeUsers containing the user (stated for runs       *)
(* without a rejected store call).                                         *)

C10_JoinCreatesRoom ==
  [][ \A id \in TaskIds :
        ( /\ tasks[id].kind = "join" /\ tasks[id].fresh /\ Ends(id)
          /\ NoStoreFailure' )
        => LET r == tasks[id].room IN
           /\ r \in DOMAIN db'
           /\ db'[r].code = ""
           /\ db'[r].language = "javascript"
           /\ tasks[id].user \in Range(db'[r].activeUsers)
    ]_vars

----------------------------------------------------------------------------
(* C11: a join leaves the previous room only when the connection's current *)
(* room is set and differs from the room it joins: the arrival of a join   *)
(* for the room the connection is already in removes no user from the      *)
(* presence entry of that room and emits no userJoined, and whenever the   *)
(* arrival of a join emits a userJoined, it is to a room other than the    *)
(* one joined.                                                             *)

\* the users of room r in the presence table ar
PresenceOf(ar, r) == IF r \in DOMAIN ar THEN Range(ar[r]) ELSE {}

\* the step is the arrival of a client event, the new handler being last
Arrives == Len(tasks') = Len(tasks) + 1

C11_ImplicitLeaveOnlyOnRoomChange ==
  [][ (Arrives /\ tasks'[Len(tasks')].kind = "join")
      => LET t == tasks'[Len(tasks')]
             cr == currentRoom[t.conn]
         IN /\ cr = t.room
               => /\ PresenceOf(activeRooms, cr) \subseteq PresenceOf(activeRooms', cr)
                  /\ emitted' = emitted
            /\ \A k \in (Len(emitted) + 1) .. Len(emitted') :
                 emitted'[k].ev = "userJoined"
                 => Truthy(cr) /\ cr # t.room /\ emitted'[k].room = cr
    ]_vars

----------------------------------------------------------------------------
(* C12: the leaveRoom of a connection that has sent no join so far changes *)
(* nothing: the handler ends at once, the presence table, the documents    *)
(* and every connection's room, user and registrations stay as they are,   *)
(* and nothing is emitted.                                                 *)

\* connection c has sent no join among the first n events
NeverJoined(c, n) ==
  \A i \in 1 .. n : ~(tasks[i].kind = "join" /\ tasks[i].conn = c)

C12_LeaveWithoutJoinIsNoop ==
  [][ \A c \in Conns :
        ( /\ Arrives /\ tasks'[Len(tasks')].kind = "leaveRoom"
          /\ tasks'[Len(tasks')].conn = c /\ NeverJoined(c, Len(tasks)) )
        => /\ tasks' = Append(tasks, NewTask("leaveRoom", c, Null, Null, ""))
           /\ UNCHANGED <<connState, currentRoom, currentUser, socketRooms,
                          activeRooms, db, emitted, addedBy>>
    ]_vars

\* a connection that never joined has sent leaveRoom while another
\* connection is in a room
C12_Witness ==
  \E i \in TaskIds :
    /\ tasks[i].kind = "leaveRoom" /\ NeverJoined(tasks[i].conn, i)
    /\ Done(i)
    /\ \E r \in DOMAIN activeRooms : activeRooms[r] # << >>

----------------------------------------------------------------------------
(* C13: a run of cleanupEmptyRooms deletes from the presence table exactly *)
(* the entries whose user set is empty, leaves every other entry as it is, *)
(* and changes neither the documents nor anything else.  (The reaper's is  *)
(* the only step that starts, resumes and ends no handler.)                *)

C13_ReaperRemovesEmptyEntries ==
  [][ tasks' = tasks
      => /\ DOMAIN activeRooms' =
              {r \in DOMAIN activeRooms : activeRooms[r] # << >>}
         /\ \A r \in DOMAIN activeRooms' : activeRooms'[r] = activeRooms[r]
         /\ UNCHANGED <<db, connState, currentRoom, currentUser, socketRooms,
                        emitted>>
    ]_vars

\* the entry of a room that was joined is gone (only the reaper deletes
\* entries) and a room with users has kept its entry
C13_Witness ==
  /\ \E i \in TaskIds :
       /\ tasks[i].kind = "join" /\ Done(i)
       /\ tasks[i].room \notin DOMAIN activeRooms
  /\ \E r \in DOMAIN activeRooms : activeRooms[r] # << >>

----------------------------------------------------------------------------
(* C14: an event whose payload lacks a required field (a codeChange        *)
(* without code, a languageChange without language, a typing without       *)
(* userName) causes no message to reach a connection other than its        *)
(* sender.                                                                 *)

\* the payload of handler invocation i lacked a field
Malformed(i) == tasks[i].text = Undefined \/ tasks[i].user = Undefined

C14_MalformedEventStaysWithSender ==
  \A k \in 1 .. Len(emitted) :
    Malformed(emitted[k].src)
    => emitted[k].to \subseteq {tasks[emitted[k].src].conn}

----------------------------------------------------------------------------
(* C15: the rejection of a store call of a join, codeChange,               *)
(* languageChange, leaveRoom or disconnect is caught inside the handler    *)
(* that awaits it, whatever the reaper did meanwhile: no rejection leaves  *)
(* a handler uncaught, and in the step of the rejection the handler runs   *)
(* on to its end or to its next store call.                                *)

C15_StoreFailureRecovered ==
  /\ [](\A id \in TaskIds : ~tasks[id].escaped)
  /\ [][ \A id \in TaskIds :
           tasks'[id].failed # tasks[id].failed
           => \/ tasks'[id].pc = "done"
              \/ tasks'[id].pc = "call" /\ tasks'[id].stage # tasks[id].stage
     ]_vars

\* a join and a leaveRoom, disconnect, codeChange or languageChange have
\* each ended after a rejected store call
C15_Witness ==
  \E i, j \in TaskIds :
    /\ tasks[i].kind = "join" /\ tasks[j].kind # "join"
    /\ tasks[i].failed # {} /\ tasks[j].failed # {}
    /\ Done(i) /\ Done(j)
    /\ ~tasks[i].escaped /\ ~tasks[j].escaped

----------------------------------------------------------------------------
(* C16: when the leaveRoom of a joined connection ends, with its store     *)
(* update fulfilled or rejected, the connection's currentRoom and          *)
(* currentUser are unset and the connection is no longer registered for    *)
(* the broadcasts of the room it left.                                     *)

C16_LeaveEndsUnjoined ==
  [][ \A id \in TaskIds :
        (tasks[id].kind = "leaveRoom" /\ WasJoined(id) /\ Ends(id))
        => LET c == tasks[id].conn IN
           /\ currentRoom'[c] = Null
           /\ currentUser'[c] = Null
           /\ tasks[id].room \notin socketRooms'[c]
    ]_vars

----------------------------------------------------------------------------
(* C17: the leave of the previous room that a join to another room         *)
(* performs has the effects of a leaveRoom sent from the same state: the   *)
(* same removal from the presence entry, the same activeUsers handed to    *)
(* the store, and a userJoined with the same user list to the same         *)
(* connections, which for a leaveRoom are those registered in the room     *)
(* while the leaving connection still is; and, as for a leaveRoom, none    *)
(* when the store update is rejected.                                      *)

C17_ImplicitLeaveLikeExplicit ==
  [][ /\ (Arrives /\ tasks'[Len(tasks')].kind = "join")
         => LET id == Len(tasks')
                c == tasks'[id].conn
                cr == currentRoom[c]
            IN ( /\ Truthy(cr) /\ cr # tasks'[id].room
                 /\ cr \in DOMAIN activeRooms )
               => LET left == SetDelete(activeRooms[cr], currentUser[c]) IN
                  /\ activeRooms' = MapSet(activeRooms, cr, left)
                  /\ tasks'[id].req = [NoReq EXCEPT !.op = "updateUsers",
                                                    !.room = cr, !.users = left]
                  /\ \A k \in (Len(emitted) + 1) .. Len(emitted') :
                       /\ emitted'[k].users = left
                       /\ emitted'[k].to = IoTo(socketRooms, cr)
      /\ \A id \in TaskIds :
           ( /\ tasks[id].kind = "join" /\ tasks[id].stage = "leave"
             /\ tasks'[id].failed # tasks[id].failed )
           => \A k \in Sent(id, "userJoined") :
                emitted[k].room # tasks[id].req.room
    ]_vars

----------------------------------------------------------------------------
(* C18: no ghost users: whenever no handler is in progress, every user     *)
(* name in the presence entry of a room is the currentUser of a connected  *)
(* connection whose currentRoom is that room.                              *)

C18_NoGhostUsers ==
  AllDone
    => \A r \in DOMAIN activeRooms :
         \A u \in Range(activeRooms[r]) :
           \E c \in Conns :
             Live(c) /\ currentRoom[c] = r /\ currentUser[c] = u

----------------------------------------------------------------------------
(* C19: whenever no handler is in progress (no store call having been      *)
(* rejected and no handler having ended in its catch block), every         *)
(* connected connection with currentRoom R and currentUser U has U in the  *)
(* presence entry of R and in the last user list broadcast to R, also      *)
(* when several connections joined R under one user name.                  *)

\* no store call was rejected and no handler ended in its catch block
NoFault == \A i \in TaskIds : tasks[i].failed = {} /\ ~tasks[i].threw

\* the positions of the userJoined broadcasts to room r
UserLists(r) ==
  {k \in 1 .. Len(emitted) :
     emitted[k].ev = "userJoined" /\ emitted[k].room = r}

C19_JoinedUserIsPresent ==
  (AllDone /\ NoFault)
    => \A c \in Conns :
         (Live(c) /\ Joined(c))
         => /\ currentUser[c] \in Presence(currentRoom[c])
            /\ \A k \in UserLists(currentRoom[c]) :
                 (\A n \in UserLists(currentRoom[c]) : n <= k)
                 => currentUser[c] \in Range(emitted[k].users)

----------------------------------------------------------------------------
(* C20: a codeChange, languageChange or typing event affects only the room *)
(* its connection is joined to: a message of such an event reaches         *)
(* somebody only if the sender's currentRoom is the room of the event, and *)
(* the return of its store call changes the documents only then.           *)

C20_EventsStayInOwnRoom ==
  [][ /\ \A k \in (Len(emitted) + 1) .. Len(emitted') :
           LET t == tasks'[emitted'[k].src] IN
           ( /\ t.kind \in {"codeChange", "languageChange", "typing"}
             /\ emitted'[k].to # {} )
           => currentRoom[t.conn] = t.room
      /\ \A id \in TaskIds :
           ( /\ tasks[id].kind \in {"codeChange", "languageChange"}
             /\ Ends(id) /\ db' # db )
           => currentRoom[tasks[id].conn] = tasks[id].room
    ]_vars

====
